---- MODULE Spec2Model ----
(***************************************************************************)
(* Model of the traffic-timelapse acquisition scheduler (download.py) and  *)
(* of the timelapse assembler (timelapse.py) that reads what it stored.    *)
(*                                                                         *)
(* Strings are sequences of one-character strings, response bodies are     *)
(* sequences of byte values.  Time is counted in whole seconds; a blocking *)
(* call (time.sleep, Thread.join with a timeout) returns as soon as its    *)
(* time is up, a network fetch may take arbitrarily long.                  *)
(***************************************************************************)
EXTENDS Integers, Sequences, FiniteSets, TLC

\* ------------------------------------------------------------------ bounds
MaxTime == 2
MaxCycles == 2

\* ------------------------------------------------------- program constants
StatusPeriod == 10
JoinTimeout == 2

\* ------------------------------------------------------------ text helpers
Min(a, b) == IF a < b THEN a ELSE b

Max(a, b) == IF a > b THEN a ELSE b

StartsWith(s, p) == /\ Len(s) >= Len(p)
                    /\ \A i \in 1..Len(p) : s[i] = p[i]

EndsWith(s, p) == /\ Len(s) >= Len(p)
                  /\ \A i \in 1..Len(p) : s[Len(s) - Len(p) + i] = p[i]

Contains(s, p) == \E k \in 0..(Len(s) - Len(p)) :
                     \A i \in 1..Len(p) : s[k + i] = p[i]

Upper == <<"T", "E", "X", "H", "M", "L">>

LowerOf == <<"t", "e", "x", "h", "m", "l">>

LowerChar(c) == IF \E i \in 1..Len(Upper) : Upper[i] = c
                THEN LowerOf[CHOOSE i \in 1..Len(Upper) : Upper[i] = c]
                ELSE c

Lower(s) == [i \in 1..Len(s) |-> LowerChar(s[i])]

DigitChars == <<"0", "1", "2", "3", "4", "5", "6", "7", "8", "9">>

IsDigit(c) == \E i \in 1..10 : DigitChars[i] = c

DigitVal(c) == (CHOOSE i \in 1..10 : DigitChars[i] = c) - 1

Digits2(n) == <<DigitChars[((n \div 10) % 10) + 1], DigitChars[(n % 10) + 1]>>

Digits4(n) == Digits2(n \div 100) \o Digits2(n % 100)

Num2(s, i) == DigitVal(s[i]) * 10 + DigitVal(s[i + 1])

\* ASCII code of the characters that occur in file names
Ord(c) == IF c = "." THEN 46
          ELSE IF IsDigit(c) THEN 48 + DigitVal(c)
          ELSE IF c = "_" THEN 95
          ELSE IF c = "a" THEN 97
          ELSE IF c = "b" THEN 98
          ELSE IF c = "e" THEN 101
          ELSE IF c = "g" THEN 103
          ELSE IF c = "j" THEN 106
          ELSE IF c = "p" THEN 112
          ELSE 0

\* str < str of Python: the first differing character decides, a proper
\* prefix sorts first
StrLess(s, t) ==
    \/ /\ Len(s) < Len(t)
       /\ \A i \in 1..Len(s) : s[i] = t[i]
    \/ \E k \in 1..Min(Len(s), Len(t)) :
          /\ \A i \in 1..(k - 1) : s[i] = t[i]
          /\ Ord(s[k]) < Ord(t[k])

RECURSIVE Split(_, _)
\* str.split(sep) for a one-character separator
Split(s, sep) ==
    IF \A i \in 1..Len(s) : s[i] # sep
    THEN <<s>>
    ELSE LET k == CHOOSE i \in 1..Len(s) :
                     /\ s[i] = sep
                     /\ \A j \in 1..(i - 1) : s[j] # sep
         IN  <<SubSeq(s, 1, k - 1)>> \o Split(SubSeq(s, k + 1, Len(s)), sep)

RECURSIVE RemoveAll(_, _)
\* str.replace(p, '')
RemoveAll(s, p) ==
    IF ~Contains(s, p)
    THEN s
    ELSE LET k == CHOOSE i \in 0..(Len(s) - Len(p)) :
                     /\ \A j \in 1..Len(p) : s[i + j] = p[j]
                     /\ \A h \in 0..(i - 1) :
                           \E j \in 1..Len(p) : s[h + j] # p[j]
         IN  SubSeq(s, 1, k) \o RemoveAll(SubSeq(s, k + Len(p) + 1, Len(s)), p)

\* ------------------------------------------------------- the filename contract
BaseYear == 2000 + 24

Ext == <<".", "j", "p", "e", "g">>

\* datetime.now().strftime("%Y%m%d_%H%M%S"); t is the wall clock in seconds
\* after 00:00:00 on 1 January of BaseYear, within January
Strftime(t) ==
    LET day  == t \div 86400
        rest == t % 86400
    IN  Digits4(BaseYear) \o Digits2(1) \o Digits2(day + 1) \o <<"_">>
        \o Digits2(rest \div 3600) \o Digits2((rest % 3600) \div 60)
        \o Digits2(rest % 60)

\* filename = f"{camera_slug}_{timestamp}.jpeg"
FileName(slug, t) == slug \o <<"_">> \o Strftime(t) \o Ext

\* glob.glob(f"{camera_key}_*.jpeg") on one directory entry
GlobMatch(key, name) ==
    /\ Len(name) >= Len(key) + 1 + Len(Ext)
    /\ StartsWith(name, key \o <<"_">>)
    /\ EndsWith(name, Ext)

NoTime == -1

\* datetime.strptime(s, '%Y%m%d_%H%M%S') for the fixed-width layout, as
\* seconds after the base instant; NoTime stands for ValueError
Strptime(s) ==
    IF /\ Len(s) = 15
       /\ s[9] = "_"
       /\ \A i \in (1..15) \ {9} : IsDigit(s[i])
    THEN LET year == Num2(s, 1) * 100 + Num2(s, 3)
             mon  == Num2(s, 5)
             day  == Num2(s, 7)
             hh   == Num2(s, 10)
             mm   == Num2(s, 12)
             ss   == Num2(s, 14)
         IN  IF /\ year = BaseYear /\ mon = 1 /\ day \in 1..31
                /\ hh < 24 /\ mm < 60 /\ ss < 60
             THEN (day - 1) * 86400 + hh * 3600 + mm * 60 + ss
             ELSE NoTime
    ELSE NoTime

\* basename.split('_')[-2] + '_' + basename.split('_')[-1].replace('.jpeg','')
\* then strptime; NoTime stands for IndexError or ValueError
ParseTimestamp(name) ==
    LET f == Split(name, "_")
    IN  IF Len(f) < 2
        THEN NoTime
        ELSE Strptime(f[Len(f) - 1] \o <<"_">> \o RemoveAll(f[Len(f)], Ext))

\* ------------------------------------------------------------ the fetcher
JpegSig == <<255, 216, 255>>

HtmlSig == <<60, 104, 116, 109, 108>>

DoctypeSig == <<60, 33, 68, 79, 67, 84, 89, 80, 69>>

TextHtml == <<"t", "e", "x", "t", "/", "h", "t", "m", "l">>

\* bodies a camera endpoint may send: nothing, a beginning of the JPEG
\* marker, the marker out of place, the marker with more after it, an HTML
\* page, a DOCTYPE page, an HTML page after a blank
Payloads == { <<>>, <<255, 216>>, <<216, 255, 255>>, JpegSig \o <<224>>,
              HtmlSig \o <<62>>, DoctypeSig \o <<32>>, <<32>> \o HtmlSig }

ContentTypes == { <<"i", "m", "a", "g", "e", "/", "j", "p", "e", "g">>,
                  <<"T", "e", "x", "t", "/", "H", "T", "M", "L", ";">> }

Statuses == {200, 404}

\* what requests.get can come back with: a response, or an exception (err)
Responses == [err : {FALSE}, status : Statuses, ctype : ContentTypes,
              body : Payloads]
             \cup {[err |-> TRUE, status |-> 0, ctype |-> <<>>, body |-> <<>>]}

\* response.raise_for_status() raises for 4xx and 5xx
RaisesForStatus(r) == r.status >= 400 /\ r.status < 600

AcceptsNoSignature(r) ==
    /\ ~r.err
    /\ ~RaisesForStatus(r)
    /\ ~Contains(Lower(r.ctype), TextHtml)
    /\ ~(StartsWith(r.body, HtmlSig) \/ StartsWith(r.body, DoctypeSig))

\* the checks of download_image between the request and the write
Accepts(r) ==
    /\ ~r.err
    /\ ~RaisesForStatus(r)
    /\ ~Contains(Lower(r.ctype), TextHtml)
    /\ ~(StartsWith(r.body, HtmlSig) \/ StartsWith(r.body, DoctypeSig))
    /\ StartsWith(r.body, JpegSig)

\* ---------------------------------------------------------------- the state
\* the keys of cameras.json: one slug that is a prefix of the other, which
\* has an underscore
CameraKeys == { <<"a">>, <<"a", "_", "b">> }

\* --camera takes one or more of the keys, in any order, repeats included
Selections == { <<<<"a">>>>,
                <<<<"a", "_", "b">>, <<"a">>>>,
                <<<<"a">>, <<"a">>>> }

\* --interval takes any integer: a negative one, zero, one second, and one
\* longer than the time main() waits for a thread
Intervals == {-1, 0, 1, JoinTimeout + 1}

\* the command lines explored: every interval with one camera, the negative
\* and the long interval with two
IntervalsFor(sel) == IF Len(sel) = 1 THEN Intervals ELSE {-1, JoinTimeout + 1}

\* download.py takes --list-cameras or runs; timelapse.py takes
\* --list-cameras, --list-images, or creates a video
DownloadModes == {"run", "list_cameras"}

TimelapseModes == {"create", "list_cameras", "list_images"}

\* cameras.json as open() and json.load find it
Configs == {"ok", "missing", "invalid"}

\* args.camera of timelapse.py when --camera is not given
NoKey == <<>>

\* --start-date / --end-date: not given, not in YYYY-MM-DD form, or the
\* day of January of BaseYear counted from 0
NoDate == -1

BadDate == -2

DateArgs == {NoDate, BadDate, 0, 1}

\* a snapshot as download.py leaves it when the write completes
Snapshot(slug, t) ==
    [data |-> JpegSig \o <<224>>, want |-> JpegSig \o <<224>>, slug |-> slug,
     ts |-> t]

\* a file in the images directory that download.py did not write
Foreign == [data |-> <<>>, want |-> <<>>, slug |-> NoKey, ts |-> NoTime]

ForeignName == <<"a", "_", "b">> \o Ext

\* an images directory with snapshots of camera a at the first and last
\* second of the first day and the first second of the second day, a
\* snapshot of camera a_b on the second day, and a file a_b.jpeg
FullArchive ==
    LET shots == { <<<<"a">>, 0>>, <<<<"a">>, 86399>>, <<<<"a">>, 86400>>,
                   <<<<"a", "_", "b">>, 86405>> }
        names == {FileName(x[1], x[2]) : x \in shots} \cup {ForeignName}
    IN  [n \in names |->
            IF n = ForeignName THEN Foreign
            ELSE LET x == CHOOSE y \in shots : FileName(y[1], y[2]) = n
                 IN  Snapshot(x[1], x[2])]

\* the images directories timelapse.py is run on
Archives == {<<>>, FullArchive}

VARIABLES
    prog,           \* which script runs: download.py or timelapse.py
    cfg,            \* cameras.json: readable, missing, or not JSON
    mode,           \* the command: run / create, or one of the listings
    selected,       \* download.py args.camera: the slugs on the command line
    interval,       \* download.py args.interval
    ffmpegOk,       \* timelapse.py: "ffmpeg -version" runs
    camera,         \* timelapse.py args.camera
    startArg,       \* timelapse.py args.start_date
    endArg,         \* timelapse.py args.end_date
    now,            \* wall clock, seconds
    files,          \* the images directory: name -> content (and who wrote it)
    wpc,            \* per downloader thread: where it is in run()
    ts,             \* per downloader: the timestamp of the running download
    content,        \* per downloader: response.content being written
    off,            \* per downloader: position of its open file
    sleepLeft,      \* per downloader: seconds left of time.sleep
    count,          \* per downloader: download_count
    running,        \* per downloader: running
    cycles,         \* per downloader: completed download_image calls
    lastOk,         \* per downloader: result of the last download_image call
    lateStarts,     \* per downloader: download_image calls begun after stop()
    spc,            \* main thread: where it is in the script
    exitCode,       \* the exit status of the process once it has ended
    idx,            \* main thread: position in the loop over downloaders
    timer,          \* main thread: seconds left of time.sleep / join
    total,          \* main thread: total_downloads being summed
    lastStatus,     \* the last "Status: Total downloads" value printed
    printed,        \* final statistics: the per-camera counts printed
    finalTotal,     \* final statistics: the total printed
    warned,         \* "Some camera threads have stopped!" was printed
    stopRequested,  \* the KeyboardInterrupt handler was entered
    asleepAtStop,   \* downloaders that were in time.sleep when stop() was called
    passSums,       \* the sums of all counters since the first read of a status
    stopCount,      \* per downloader: download_count when stop() was called
    imageFiles,     \* timelapse.py: what find_camera_images returned
    encoded         \* timelapse.py: the files the ffmpeg command line names

\* the command line and what the script finds installed
ivars == <<prog, cfg, mode, selected, interval, ffmpegOk, camera, startArg,
           endArg>>

wvars == <<wpc, ts, content, off, sleepLeft, count, running, cycles, lastOk,
           lateStarts>>

\* the locals of main() of download.py
mvars == <<idx, timer, total, lastStatus, printed, finalTotal, warned,
           stopRequested, asleepAtStop, passSums, stopCount>>

\* the locals of timelapse.py
tvars == <<imageFiles, encoded>>

svars == <<spc, exitCode, mvars, tvars>>

vars == <<ivars, now, files, wvars, svars>>

Workers == 1..Len(selected)

\* the positions a downloader can have on one of the command lines
WorkerIds == UNION {DOMAIN sel : sel \in Selections}

\* the sizes one write to a file can have
ChunkSizes == UNION {1..Len(b) : b \in Payloads}

Terminated == {"stopped", "dead", "killed"}

IsAliveUnlessStopped(w) == wpc[w] \notin {"stopped", "killed"}

\* Thread.is_alive()
IsAlive(w) == wpc[w] \notin Terminated

NoPrinted == -1

NoExit == -1

\* python download.py ...: the images directory starts empty
DownloadArgs ==
    /\ prog = "download"
    /\ mode \in DownloadModes
    /\ selected \in Selections
    /\ interval \in IntervalsFor(selected)
    /\ files = <<>>
    /\ ffmpegOk = TRUE
    /\ camera = NoKey
    /\ startArg = NoDate
    /\ endArg = NoDate

\* python timelapse.py ...: no downloader exists
TimelapseArgs ==
    /\ prog = "timelapse"
    /\ mode \in TimelapseModes
    /\ selected = <<>>
    /\ interval = 0
    /\ files \in Archives
    /\ ffmpegOk \in BOOLEAN
    /\ camera \in CameraKeys \cup {NoKey}
    /\ startArg \in DateArgs
    /\ endArg \in DateArgs

Init ==
    /\ DownloadArgs \/ TimelapseArgs
    /\ cfg \in Configs
    /\ now = 0
    /\ wpc = [w \in Workers |-> "idle"]
    /\ ts = [w \in Workers |-> 0]
    /\ content = [w \in Workers |-> <<>>]
    /\ off = [w \in Workers |-> 0]
    /\ sleepLeft = [w \in Workers |-> 0]
    /\ count = [w \in Workers |-> 0]
    /\ running = [w \in Workers |-> TRUE]
    /\ cycles = [w \in Workers |-> 0]
    /\ lastOk = [w \in Workers |-> FALSE]
    /\ lateStarts = [w \in Workers |-> 0]
    /\ spc = "load"
    /\ exitCode = NoExit
    /\ idx = 1
    /\ timer = 0
    /\ total = 0
    /\ lastStatus = NoPrinted
    /\ printed = <<>>
    /\ finalTotal = NoPrinted
    /\ warned = FALSE
    /\ stopRequested = FALSE
    /\ asleepAtStop = {}
    /\ passSums = {}
    /\ stopCount = [w \in Workers |-> 0]
    /\ imageFiles = <<>>
    /\ encoded = <<>>

ProcessUp == spc # "exited"

\* ------------------------------------------------------ CameraDownloader.run
\* time.sleep(self.interval): a negative length raises ValueError, which
\* nothing in run() catches, so the thread ends
SleepPc == IF interval < 0 THEN "dead" ELSE "sleep"

ReturnFalseCounted(w) ==
    /\ wpc' = [wpc EXCEPT ![w] = SleepPc]
    /\ sleepLeft' = [sleepLeft EXCEPT ![w] = Max(interval, 0)]
    /\ cycles' = [cycles EXCEPT ![w] = @ + 1]
    /\ lastOk' = [lastOk EXCEPT ![w] = FALSE]
    /\ content' = [content EXCEPT ![w] = <<>>]
    /\ off' = [off EXCEPT ![w] = 0]
    /\ count' = [count EXCEPT ![w] = @ + 1]
    /\ UNCHANGED <<ts, running, lateStarts>>

\* download_image returned False; run() goes on to time.sleep
ReturnFalse(w) ==
    /\ wpc' = [wpc EXCEPT ![w] = SleepPc]
    /\ sleepLeft' = [sleepLeft EXCEPT ![w] = Max(interval, 0)]
    /\ cycles' = [cycles EXCEPT ![w] = @ + 1]
    /\ lastOk' = [lastOk EXCEPT ![w] = FALSE]
    /\ content' = [content EXCEPT ![w] = <<>>]
    /\ off' = [off EXCEPT ![w] = 0]
    /\ UNCHANGED <<ts, count, running, lateStarts>>

LoopTestIgnoresFlag(w) == TRUE

\* the test of "while self.running:"
LoopTest(w) == running[w]

\* while self.running: the flag is up, run() goes on to call download_image
EnterLoop(w) ==
    /\ w \in Workers
    /\ ProcessUp
    /\ wpc[w] = "top"
    /\ LoopTest(w)
    /\ cycles[w] < MaxCycles
    /\ now < MaxTime
    /\ wpc' = [wpc EXCEPT ![w] = "call"]
    /\ UNCHANGED <<ts, content, off, sleepLeft, count, running, cycles, lastOk, lateStarts>>
    /\ UNCHANGED <<ivars, now, files, svars>>

\* download_image takes the timestamp, builds the file name and sends the
\* request
BeginDownload(w) ==
    /\ w \in Workers
    /\ ProcessUp
    /\ wpc[w] = "call"
    /\ wpc' = [wpc EXCEPT ![w] = "fetch"]
    /\ ts' = [ts EXCEPT ![w] = now]
    /\ lateStarts' = [lateStarts EXCEPT ![w] = IF running[w] THEN @ ELSE @ + 1]
    /\ UNCHANGED <<content, off, sleepLeft, count, running, cycles, lastOk>>
    /\ UNCHANGED <<ivars, now, files, svars>>

\* while self.running: the flag is down, run() returns
ExitLoop(w) ==
    /\ w \in Workers
    /\ ProcessUp
    /\ wpc[w] = "top"
    /\ ~LoopTest(w)
    /\ wpc' = [wpc EXCEPT ![w] = "stopped"]
    /\ UNCHANGED <<ts, content, off, sleepLeft, count, running, cycles, lastOk, lateStarts>>
    /\ UNCHANGED <<ivars, now, files, svars>>

\* the images directory after open(filepath, 'wb') by w: the file is
\* created, or truncated if it is there
Opened(w, body) ==
    LET name == FileName(selected[w], ts[w])
        f == [data |-> <<>>, want |-> body, slug |-> selected[w],
              ts |-> ts[w]]
    IN  [n \in DOMAIN files \cup {name} |-> IF n = name THEN f ELSE files[n]]

\* requests.get comes back and the response is checked; one that passes
\* the checks is kept and the file is opened, anything else (an exception
\* of requests included) makes download_image return False
FetchReturn(w, r) ==
    /\ w \in Workers
    /\ ProcessUp
    /\ wpc[w] = "fetch"
    /\ IF Accepts(r)
       THEN /\ wpc' = [wpc EXCEPT ![w] = "write"]
            /\ content' = [content EXCEPT ![w] = r.body]
            /\ files' = Opened(w, r.body)
            /\ UNCHANGED <<ts, off, sleepLeft, count, running, cycles, lastOk, lateStarts>>
       ELSE /\ ReturnFalse(w)
            /\ UNCHANGED files
    /\ UNCHANGED <<ivars, now, svars>>

\* the response passes the checks but open(filepath, 'wb') raises OSError,
\* caught by except Exception
OpenFail(w, r) ==
    /\ w \in Workers
    /\ ProcessUp
    /\ wpc[w] = "fetch"
    /\ Accepts(r)
    /\ ReturnFalse(w)
    /\ UNCHANGED <<ivars, now, files, svars>>

\* the file content after k bytes of c are written at position o
Written(old, c, o, k) ==
    [i \in 1..Max(Len(old), o + k) |->
        IF i > o /\ i <= o + k THEN c[i]
        ELSE IF i <= Len(old) THEN old[i] ELSE 0]

\* file.write(response.content): the next k bytes reach the file
WriteChunk(w, k) ==
    /\ w \in Workers
    /\ ProcessUp
    /\ wpc[w] = "write"
    /\ k \in 1..(Len(content[w]) - off[w])
    /\ LET name == FileName(selected[w], ts[w])
       IN  files' = [files EXCEPT ![name].data =
                        Written(@, content[w], off[w], k)]
    /\ off' = [off EXCEPT ![w] = @ + k]
    /\ UNCHANGED <<wpc, ts, content, sleepLeft, count, running, cycles, lastOk, lateStarts>>
    /\ UNCHANGED <<ivars, now, svars>>

\* file.write raises OSError before everything is written
WriteFail(w) ==
    /\ w \in Workers
    /\ ProcessUp
    /\ wpc[w] = "write"
    /\ off[w] < Len(content[w])
    /\ ReturnFalse(w)
    /\ UNCHANGED <<ivars, now, files, svars>>

RECURSIVE SumOf(_)
\* the sum of all counters c at one instant
SumOf(c) == IF c = <<>> THEN 0 ELSE c[Len(c)] + SumOf(SubSeq(c, 1, Len(c) - 1))

CountAll(w) == [x \in DOMAIN count |-> count[x] + 1]

\* self.download_count += 1
CountUp(w) == [count EXCEPT ![w] = @ + 1]

\* everything is written: the with block closes the file, download_image
\* returns True, run() adds one to download_count under its lock and goes
\* on to time.sleep(self.interval)
Increment(w) ==
    /\ w \in Workers
    /\ ProcessUp
    /\ wpc[w] = "write"
    /\ off[w] = Len(content[w])
    /\ count' = CountUp(w)
    /\ wpc' = [wpc EXCEPT ![w] = SleepPc]
    /\ sleepLeft' = [sleepLeft EXCEPT ![w] = Max(interval, 0)]
    /\ cycles' = [cycles EXCEPT ![w] = @ + 1]
    /\ lastOk' = [lastOk EXCEPT ![w] = TRUE]
    /\ content' = [content EXCEPT ![w] = <<>>]
    /\ off' = [off EXCEPT ![w] = 0]
    /\ passSums' = IF passSums = {} THEN passSums
                   ELSE passSums \cup {SumOf(count')}
    /\ UNCHANGED <<ts, running, lateStarts>>
    /\ UNCHANGED <<idx, timer, total, lastStatus, printed, finalTotal, warned,
                   stopRequested, asleepAtStop, stopCount>>
    /\ UNCHANGED <<ivars, now, files, spc, exitCode, tvars>>

\* time.sleep(self.interval) returns
Wake(w) ==
    /\ w \in Workers
    /\ ProcessUp
    /\ wpc[w] = "sleep"
    /\ sleepLeft[w] = 0
    /\ wpc' = [wpc EXCEPT ![w] = "top"]
    /\ UNCHANGED <<ts, content, off, sleepLeft, count, running, cycles, lastOk, lateStarts>>
    /\ UNCHANGED <<ivars, now, files, svars>>

\* ------------------------------------------------------------------- startup
ExitZero(code) ==
    /\ spc' = "exited"
    /\ exitCode' = 0

\* sys.exit(code) / exit(code) in the main thread: the process ends with
\* that status
Exit(code) ==
    /\ spc' = "exited"
    /\ exitCode' = code

\* CAMERAS = load_cameras() at import time, the same in both scripts: a
\* missing file or invalid JSON ends the process with status 1
LoadCameras ==
    /\ spc = "load"
    /\ IF cfg = "ok"
       THEN spc' = "main" /\ UNCHANGED exitCode
       ELSE Exit(1)
    /\ UNCHANGED <<ivars, now, files, wvars, mvars, tvars>>

\* download.py --list-cameras: list_available_cameras(), return
ListCameras ==
    /\ spc = "main"
    /\ prog = "download"
    /\ mode = "list_cameras"
    /\ spc' = "return"
    /\ UNCHANGED <<ivars, now, files, wvars, exitCode, mvars, tvars>>

\* download.py: main() prints the banner and creates the images directory
StartRun ==
    /\ spc = "main"
    /\ prog = "download"
    /\ mode = "run"
    /\ spc' = "spawn"
    /\ UNCHANGED <<ivars, now, files, wvars, exitCode, mvars, tvars>>

\* ---------------------------------------------------------------------- main
\* for camera_slug in selected_cameras: ... thread.start()
Spawn ==
    /\ spc = "spawn"
    /\ wpc' = [wpc EXCEPT ![idx] = "top"]
    /\ IF idx = Len(selected)
       THEN /\ spc' = "sleep"
            /\ idx' = 1
            /\ timer' = StatusPeriod
       ELSE /\ idx' = idx + 1
            /\ UNCHANGED <<spc, timer>>
    /\ UNCHANGED <<ts, content, off, sleepLeft, count, running, cycles, lastOk, lateStarts>>
    /\ UNCHANGED <<total, lastStatus, printed, finalTotal, warned,
                   stopRequested, asleepAtStop, exitCode, passSums, stopCount, tvars>>
    /\ UNCHANGED <<ivars, now, files>>

\* time.sleep(10) returns
StatusWake ==
    /\ spc = "sleep"
    /\ timer = 0
    /\ spc' = "sample"
    /\ idx' = 1
    /\ total' = 0
    /\ UNCHANGED <<timer, lastStatus, printed, finalTotal, warned,
                   stopRequested, asleepAtStop, exitCode, passSums, stopCount, tvars>>
    /\ UNCHANGED <<ivars, now, files, wvars>>

\* sum(d.download_count for d in downloaders), one read at a time, then print
SampleOne ==
    /\ spc = "sample"
    /\ total' = total + count[idx]
    /\ passSums' = IF idx = 1 THEN {SumOf(count)} ELSE passSums
    /\ IF idx = Len(selected)
       THEN /\ spc' = "check"
            /\ idx' = 1
            /\ lastStatus' = total'
       ELSE /\ idx' = idx + 1
            /\ UNCHANGED <<spc, lastStatus>>
    /\ UNCHANGED <<timer, printed, finalTotal, warned, stopRequested,
                   asleepAtStop, exitCode, stopCount, tvars>>
    /\ UNCHANGED <<ivars, now, files, wvars>>

\* alive_threads = [...]; if fewer than started: warn and break, which ends
\* main(); otherwise the loop goes back to time.sleep(10)
CheckAlive ==
    /\ spc = "check"
    /\ IF \E w \in Workers : ~IsAlive(w)
       THEN /\ warned' = TRUE
            /\ spc' = "return"
            /\ UNCHANGED timer
       ELSE /\ spc' = "sleep"
            /\ timer' = StatusPeriod
            /\ UNCHANGED warned
    /\ passSums' = {}
    /\ UNCHANGED <<idx, total, lastStatus, printed, finalTotal, stopRequested,
                   asleepAtStop, exitCode, stopCount, tvars>>
    /\ UNCHANGED <<ivars, now, files, wvars>>

\* Ctrl+C while main is in the try block: except KeyboardInterrupt
KeyboardInterrupt ==
    /\ spc \in {"sleep", "sample", "check"}
    /\ spc' = "stopping"
    /\ idx' = 1
    /\ timer' = 0
    /\ total' = 0
    /\ stopRequested' = TRUE
    /\ passSums' = {}
    /\ UNCHANGED <<lastStatus, printed, finalTotal, warned,
                   asleepAtStop, exitCode, stopCount, tvars>>
    /\ UNCHANGED <<ivars, now, files, wvars>>

\* for downloader in downloaders: downloader.stop()
StopOne ==
    /\ spc = "stopping"
    /\ running' = [running EXCEPT ![idx] = FALSE]
    /\ asleepAtStop' = IF wpc[idx] = "sleep"
                       THEN asleepAtStop \cup {idx} ELSE asleepAtStop
    /\ stopCount' = [stopCount EXCEPT ![idx] = count[idx]]
    /\ IF idx = Len(selected)
       THEN /\ spc' = "join"
            /\ idx' = 1
            /\ timer' = JoinTimeout
       ELSE /\ idx' = idx + 1
            /\ UNCHANGED <<spc, timer>>
    /\ UNCHANGED <<wpc, ts, content, off, sleepLeft, count, cycles, lastOk, lateStarts>>
    /\ UNCHANGED <<total, lastStatus, printed, finalTotal, warned,
                   stopRequested, exitCode, passSums, tvars>>
    /\ UNCHANGED <<ivars, now, files>>

JoinDoneForever(w) == ~IsAlive(w)

\* thread.join(timeout=2) returns: the thread has ended or the time is up
JoinDone(w) == ~IsAlive(w) \/ timer = 0

\* for thread in threads: thread.join(timeout=2)
JoinReturn ==
    /\ spc = "join"
    /\ JoinDone(idx)
    /\ IF idx = Len(selected)
       THEN /\ spc' = "report"
            /\ idx' = 1
            /\ total' = 0
            /\ timer' = 0
       ELSE /\ idx' = idx + 1
            /\ timer' = JoinTimeout
            /\ UNCHANGED <<spc, total>>
    /\ UNCHANGED <<lastStatus, printed, finalTotal, warned, stopRequested,
                   asleepAtStop, exitCode, passSums, stopCount, tvars>>
    /\ UNCHANGED <<ivars, now, files, wvars>>

\* print(f"  {downloader.camera_slug}: {downloader.download_count} images")
ReportPrint ==
    /\ spc = "report"
    /\ printed' = Append(printed, count[idx])
    /\ spc' = "reportadd"
    /\ UNCHANGED <<idx, timer, total, lastStatus, finalTotal, warned,
                   stopRequested, asleepAtStop, exitCode, passSums, stopCount, tvars>>
    /\ UNCHANGED <<ivars, now, files, wvars>>

\* total_downloads += downloader.download_count; after the last one the
\* total is printed and main() returns
ReportAdd ==
    /\ spc = "reportadd"
    /\ total' = total + count[idx]
    /\ IF idx = Len(selected)
       THEN /\ spc' = "return"
            /\ idx' = 1
            /\ finalTotal' = total'
       ELSE /\ spc' = "report"
            /\ idx' = idx + 1
            /\ UNCHANGED finalTotal
    /\ UNCHANGED <<timer, lastStatus, printed, warned, stopRequested,
                   asleepAtStop, exitCode, passSums, stopCount, tvars>>
    /\ UNCHANGED <<ivars, now, files, wvars>>

\* the main thread has returned from main(): the interpreter exits with
\* status 0 and the daemon threads that are still running end with it
ProcessExit ==
    /\ spc = "return"
    /\ Exit(0)
    /\ wpc' = [w \in Workers |-> IF IsAlive(w) THEN "killed" ELSE wpc[w]]
    /\ UNCHANGED <<ts, content, off, sleepLeft, count, running, cycles, lastOk, lateStarts>>
    /\ UNCHANGED <<ivars, now, files, mvars, tvars>>

\* ------------------------------------------------------------- timelapse.py
RECURSIVE SortNames(_)
\* image_files.sort(): the names in S in ascending order
SortNames(S) ==
    IF S = {}
    THEN <<>>
    ELSE LET m == CHOOSE x \in S : \A y \in S \ {x} : StrLess(x, y)
         IN  <<m>> \o SortNames(S \ {m})

\* the entries of the images directory fs that {key}_*.jpeg matches
Glob(fs, key) == {n \in DOMAIN fs : GlobMatch(key, n)}

\* datetime.strptime(args.start_date, '%Y-%m-%d'): midnight of the day
StartOf(d) == IF d = NoDate THEN NoDate ELSE d * 86400

\* ... .replace(hour=23, minute=59, second=59): the last second of the day
EndOf(d) == IF d = NoDate THEN NoDate ELSE d * 86400 + 86399

\* neither "img_datetime < start_date" nor "img_datetime > end_date", each
\* tested only for a bound that is given
InRange(t, s, e) == ~(s # NoDate /\ t < s) /\ ~(e # NoDate /\ t > e)

\* find_camera_images(camera_key, start_date, end_date) on the directory fs
FindCameraImages(fs, key, s, e) ==
    LET image_files == Glob(fs, key)
    IN  IF image_files = {}
        THEN <<>>
        ELSE IF s # NoDate \/ e # NoDate
             THEN SortNames({n \in image_files :
                                /\ ParseTimestamp(n) # NoTime
                                /\ InRange(ParseTimestamp(n), s, e)})
             ELSE SortNames(image_files)

\* the frames ffmpeg reads for "-pattern_type glob -i images/{key}_*.jpeg":
\* it expands the pattern itself, in sorted order
EncoderInput(fs, key) == SortNames(Glob(fs, key))

\* parse_arguments(): parser.error ends the process with status 2 when
\* neither --camera nor --list-cameras is given
ParseArguments ==
    /\ spc = "main"
    /\ prog = "timelapse"
    /\ IF mode # "list_cameras" /\ camera = NoKey
       THEN Exit(2)
       ELSE spc' = "parsed" /\ UNCHANGED exitCode
    /\ UNCHANGED <<ivars, now, files, wvars, mvars, tvars>>

\* if not check_ffmpeg(): ... sys.exit(1)
CheckFfmpeg ==
    /\ spc = "parsed"
    /\ IF ffmpegOk
       THEN spc' = "ready" /\ UNCHANGED exitCode
       ELSE Exit(1)
    /\ UNCHANGED <<ivars, now, files, wvars, mvars, tvars>>

\* timelapse.py --list-cameras: list_available_cameras(), return
ListAvailableCameras ==
    /\ spc = "ready"
    /\ mode = "list_cameras"
    /\ spc' = "return"
    /\ UNCHANGED <<ivars, now, files, wvars, exitCode, mvars, tvars>>

\* timelapse.py --list-images: list_camera_images(args.camera), return
ListCameraImages ==
    /\ spc = "ready"
    /\ mode = "list_images"
    /\ imageFiles' = FindCameraImages(files, camera, NoDate, NoDate)
    /\ spc' = "return"
    /\ UNCHANGED <<ivars, now, files, wvars, exitCode, mvars, encoded>>

\* the date arguments are parsed; a malformed one ends the process with
\* status 1
ParseDates ==
    /\ spc = "ready"
    /\ mode = "create"
    /\ IF startArg = BadDate \/ endArg = BadDate
       THEN Exit(1)
       ELSE spc' = "create" /\ UNCHANGED exitCode
    /\ UNCHANGED <<ivars, now, files, wvars, mvars, tvars>>

\* create_timelapse up to the ffmpeg command: find_camera_images with the
\* range; with no image it returns False and main() ends with status 1
FindImages ==
    /\ spc = "create"
    /\ imageFiles' = FindCameraImages(files, camera, StartOf(startArg),
                                      EndOf(endArg))
    /\ IF imageFiles' = <<>>
       THEN Exit(1)
       ELSE spc' = "encode" /\ UNCHANGED exitCode
    /\ UNCHANGED <<ivars, now, files, wvars, mvars, encoded>>

\* subprocess.run(ffmpeg_cmd): ffmpeg reads the frames the pattern names;
\* ok says whether it returns 0.  A failure makes create_timelapse return
\* False and main() end with status 1
RunEncoder(ok) ==
    /\ spc = "encode"
    /\ encoded' = EncoderInput(files, camera)
    /\ IF ok
       THEN spc' = "return" /\ UNCHANGED exitCode
       ELSE Exit(1)
    /\ UNCHANGED <<ivars, now, files, wvars, mvars, imageFiles>>

\* ---------------------------------------------------------------------- time
\* a blocking call whose time is up returns before the clock moves on
Due ==
    \/ \E w \in Workers : wpc[w] = "sleep" /\ sleepLeft[w] = 0
    \/ spc = "sleep" /\ timer = 0
    \/ spc = "join" /\ JoinDone(idx)

\* a thread that is computing: its next step takes no time.  The threads
\* that wait are those in requests.get, time.sleep or join
Computing ==
    \/ \E w \in Workers :
          \/ wpc[w] \in {"call", "write"}
          \/ wpc[w] = "top" /\ (~running[w] \/ (cycles[w] < MaxCycles /\ now < MaxTime))
    \/ spc \notin {"sleep", "join", "exited"}

\* one second passes
Tick ==
    /\ ProcessUp
    /\ ~Due
    /\ ~Computing
    /\ now' = Min(now + 1, MaxTime)
    /\ sleepLeft' = [w \in Workers |->
                        IF wpc[w] = "sleep" THEN sleepLeft[w] - 1
                        ELSE sleepLeft[w]]
    /\ timer' = IF spc \in {"sleep", "join"} THEN Max(timer - 1, 0) ELSE timer
    /\ UNCHANGED <<wpc, ts, content, off, count, running, cycles, lastOk, lateStarts>>
    /\ UNCHANGED <<spc, idx, total, lastStatus, printed, finalTotal, warned,
                   stopRequested, asleepAtStop, exitCode, passSums, stopCount, tvars>>
    /\ UNCHANGED <<ivars, files>>

\* ------------------------------------------------------------- specification
WorkerStep(w) ==
    \/ EnterLoop(w)
    \/ BeginDownload(w)
    \/ ExitLoop(w)
    \/ \E r \in Responses : FetchReturn(w, r)
    \/ \E r \in Responses : OpenFail(w, r)
    \/ \E k \in ChunkSizes : WriteChunk(w, k)
    \/ WriteFail(w)
    \/ Increment(w)
    \/ Wake(w)

StartStep ==
    \/ LoadCameras
    \/ ListCameras
    \/ StartRun

TimelapseStep ==
    \/ ParseArguments
    \/ CheckFfmpeg
    \/ ListAvailableCameras
    \/ ListCameraImages
    \/ ParseDates
    \/ FindImages
    \/ \E ok \in BOOLEAN : RunEncoder(ok)

SchedStep ==
    \/ Spawn
    \/ StatusWake
    \/ SampleOne
    \/ CheckAlive
    \/ StopOne
    \/ JoinReturn
    \/ ReportPrint
    \/ ReportAdd
    \/ ProcessExit

Next ==
    \/ StartStep
    \/ TimelapseStep
    \/ \E w \in WorkerIds : WorkerStep(w)
    \/ SchedStep
    \/ KeyboardInterrupt
    \/ Tick

Spec == Init /\ [][Next]_vars

\* every step of a downloader except the return of requests.get
WorkerCompute(w) ==
    \/ EnterLoop(w)
    \/ BeginDownload(w)
    \/ ExitLoop(w)
    \/ \E k \in ChunkSizes : WriteChunk(w, k)
    \/ Increment(w)
    \/ Wake(w)

\* the command lines of download.py with one camera, and those of
\* timelapse.py
OneCameraInit == Init /\ Len(selected) <= 1

OneCameraSpec == OneCameraInit /\ [][Next]_vars

\* the command lines of download.py with one camera and those with two
\* whose downloaders end after one download, and those of timelapse.py
FairInit == Init /\ (Len(selected) <= 1 \/ interval < 0)

\* the threads are scheduled and the clock runs; a request may hang
FairSpec ==
    /\ FairInit
    /\ [][Next]_vars
    /\ WF_vars(SchedStep)
    /\ WF_vars(Tick)
    /\ \A w \in WorkerIds : WF_vars(WorkerCompute(w))

TypeOK ==
    /\ now \in 0..MaxTime
    /\ \A w \in Workers : count[w] \in 0..MaxCycles /\ sleepLeft[w] >= 0
    /\ timer >= 0

\* ------------------------------------------------------------------- claims
\* the files in the directory fs that were written for the camera slug
FilesOf(fs, slug) ==
    [n \in {m \in DOMAIN fs : fs[m].slug = slug} |-> fs[n]]

\* a downloader between two download_image calls
BetweenCycles(w) == wpc[w] \in {"top", "call", "sleep", "stopped", "dead"}

\* a downloader inside a download_image call
InCycle(w) == wpc[w] \in {"fetch", "write"}

\* the join loop of the KeyboardInterrupt handler is over
JoinsOver == stopRequested /\ spc \in {"report", "reportadd", "return"}

\* C1: once stop() has been called on every downloader, each downloader that
\* was in its sleep at that moment has left its run loop by the time the
\* joins of main() are over
C1_AsleepStoppedInTime ==
    JoinsOver => \A w \in asleepAtStop : wpc[w] = "stopped"

\* C2: when a downloader thread has ended without a stop request, main()
\* stays in its supervision loop and no other downloader is ended
C2_DeathContained ==
    ((\E w \in Workers : wpc[w] = "dead") /\ ~stopRequested)
        => /\ spc \notin {"return", "exited"}
           /\ \A y \in Workers : wpc[y] # "killed"

\* C3: a downloader whose last download_image call failed has not ended:
\* it sleeps the interval and goes on
C3_FailedCycleGoesOn ==
    \A w \in Workers : (cycles[w] > 0 /\ ~lastOk[w]) => wpc[w] # "dead"

\* C4: for a camera with one downloader, all of whose downloads succeeded,
\* between two cycles there are as many files of the camera as the counter
\* says, and their names sort in the order of their timestamps
C4_OneFilePerDownload ==
    \A w \in Workers :
        ( /\ \A x \in Workers : selected[x] = selected[w] => x = w
          /\ BetweenCycles(w)
          /\ count[w] = cycles[w] )
        => /\ Cardinality(DOMAIN FilesOf(files, selected[w])) = count[w]
           /\ \A m, n \in DOMAIN FilesOf(files, selected[w]) :
                 files[m].ts < files[n].ts <=> StrLess(m, n)

IsMarkup(body) == StartsWith(body, HtmlSig) \/ StartsWith(body, DoctypeSig)

GoodResponse(r) ==
    /\ ~r.err
    /\ r.status \in 200..299
    /\ ~Contains(Lower(r.ctype), TextHtml)
    /\ StartsWith(r.body, JpegSig)
    /\ ~IsMarkup(r.body)

Stepped(x) == wpc'[x] # wpc[x] \/ off'[x] # off[x]

\* C6: a step of the downloader of camera X changes neither the counter,
\* the running flag, the position nor the files of another camera Y
C6_WorkersIndependent ==
    [][\A x, y \in Workers :
          (selected[x] # selected[y] /\ Stepped(x) /\ ~ProcessExit)
             => /\ count'[y] = count[y]
                /\ running'[y] = running[y]
                /\ wpc'[y] = wpc[y]
                /\ FilesOf(files', selected[y])
                      = FilesOf(files, selected[y])]_vars

\* one camera has failed a download and has counted nothing while another
\* camera has stored and counted one
C6_Witness ==
    \E x, y \in Workers :
        /\ selected[x] # selected[y]
        /\ cycles[x] >= 1 /\ count[x] = 0 /\ ~lastOk[x]
        /\ count[y] >= 1
        /\ DOMAIN FilesOf(files, selected[y]) # {}
        /\ DOMAIN FilesOf(files, selected[x]) = {}

\* C7: no two downloaders are inside a download for the same slug at the
\* same time
C7_OneCyclePerSlug ==
    \A x, y \in Workers :
        (x # y /\ selected[x] = selected[y]) => ~(InCycle(x) /\ InCycle(y))

\* C8: once the KeyboardInterrupt handler is entered, main() gets to set
\* the flag of every downloader down, print the count of every camera and
\* the total, and end, whatever the downloaders do
C8_SchedulerEnds ==
    stopRequested ~> ( /\ spc = "exited"
                       /\ \A w \in Workers : ~running[w]
                       /\ Len(printed) = Len(selected)
                       /\ finalTotal # NoPrinted )

\* main() has printed the final statistics and ended while a downloader
\* that had finished no download had not left its loop
C8_Witness ==
    /\ spc = "exited"
    /\ stopRequested
    /\ finalTotal # NoPrinted
    /\ \E w \in Workers : wpc[w] = "killed" /\ content[w] = <<>> /\ off[w] = 0
                          /\ cycles[w] = 0

\* C9: every file in the images directory holds the whole body it was
\* opened for
C9_NoPartialFile ==
    \A n \in DOMAIN files : files[n].data = files[n].want

\* C10: the name of every file download.py stored gives back its
\* timestamp, and the stored files that the pattern of camera K matches
\* are files stored for K
C10_NameRoundTrip ==
    \A n \in DOMAIN files :
        files[n].slug \in CameraKeys
            => /\ n = FileName(files[n].slug, files[n].ts)
               /\ ParseTimestamp(n) = files[n].ts
               /\ \A k \in CameraKeys : GlobMatch(k, n) => files[n].slug = k

\* the names in the list seq
Names(seq) == {seq[i] : i \in 1..Len(seq)}

\* a date range is given to timelapse.py
RangeGiven == startArg # NoDate \/ endArg # NoDate

\* C11: when create_timelapse is called with a start or an end date, the
\* files the encoder reads are the files find_camera_images returned for
\* that range, in the same sorted order
C11_EncodesFiltered ==
    (RangeGiven /\ encoded # <<>>) => encoded = imageFiles

\* the process has ended without a status other than 0 being due to the
\* configuration or the encoder
MissingDependency == cfg # "ok" \/ (prog = "timelapse" /\ ~ffmpegOk)

\* C12 as stated: a process that has ended has a status other than 0
\* exactly if the encoder is absent or the configuration did not load, and
\* a configuration that did not load means no downloader was started
C12_ExitCodes ==
    spc = "exited"
        => /\ exitCode # 0 <=> MissingDependency
           /\ cfg # "ok" => \A w \in Workers : wpc[w] = "idle"

\* timelapse.py is asked for something it cannot do: no camera given, a
\* malformed date, or no image of the camera in the range
CannotCreate ==
    \/ mode # "list_cameras" /\ camera = NoKey
    \/ /\ mode = "create"
       /\ \/ startArg = BadDate
          \/ endArg = BadDate
          \/ FindCameraImages(files, camera, StartOf(startArg),
                              EndOf(endArg)) = <<>>

\* C12 amended: a process whose configuration did not load ends with
\* status 1 before a downloader is started or an image is looked for;
\* timelapse.py without the encoder ends with a status other than 0;
\* download.py with a configuration ends with 0, after a listing, a
\* Ctrl+C or the stopped-thread warning; timelapse.py with configuration
\* and encoder ends with 0 after a listing with its camera given, with a
\* status other than 0 when it cannot create the video, and with 0 after
\* a creation only if the encoder ran on a non-empty enumeration
C12_ExitCodesAmended ==
    spc = "exited"
        => /\ cfg # "ok" => /\ exitCode = 1
                            /\ \A w \in Workers : wpc[w] = "idle"
                            /\ imageFiles = <<>> /\ encoded = <<>>
           /\ MissingDependency => exitCode # 0
           /\ (prog = "download" /\ cfg = "ok") => exitCode = 0
           /\ (prog = "timelapse" /\ ~MissingDependency)
                 => /\ CannotCreate => exitCode # 0
                    /\ (mode # "create" /\ ~CannotCreate) => exitCode = 0
                    /\ (mode = "create" /\ exitCode = 0)
                          => imageFiles # <<>> /\ encoded # <<>>

\* download.py asked for two cameras has ended with status 1 on a
\* cameras.json that is not JSON, with no downloader started
C12_Witness ==
    /\ spc = "exited"
    /\ prog = "download"
    /\ mode = "run"
    /\ Len(selected) = 2
    /\ cfg = "invalid"
    /\ exitCode = 1
    /\ \A w \in Workers : wpc[w] = "idle"

\* a downloader thread has ended without its flag being the cause
SomeDead == \E w \in Workers : wpc[w] = "dead"

\* C13: when a downloader thread has ended and no stop is requested, main()
\* is at most one status period away from its next sample, the check after
\* that sample prints the warning, and so the warning comes unless Ctrl+C
\* comes first; the warning is printed only when a thread has ended on its
\* own, never after a stop request and never with a downloader that left
\* its loop because its flag was down
C13_DeathIsWarned ==
    /\ (SomeDead /\ ~stopRequested) ~> (warned \/ stopRequested)
    /\ []((SomeDead /\ ~stopRequested /\ ~warned)
             => /\ spc \in {"spawn", "sleep", "sample", "check"}
                /\ timer <= StatusPeriod)
    /\ [][(spc = "check" /\ spc' # "check" /\ SomeDead /\ ~stopRequested')
             => warned']_vars
    /\ [](warned => /\ ~stopRequested
                    /\ SomeDead
                    /\ \A w \in Workers : wpc[w] # "stopped")

\* the warning is printed while one downloader thread has ended and the
\* other is waiting for its response
C13_Witness ==
    /\ warned
    /\ ~stopRequested
    /\ \E w, y \in Workers : wpc[w] = "dead" /\ wpc[y] = "fetch"

\* C14: the total of a status line is the sum all counters had at some
\* instant between the first and the last read of that status, and is not
\* below the total of the status line before it
C14_StatusTotalConsistent ==
    [][(spc = "sample" /\ spc' = "check")
         => /\ lastStatus' \in passSums'
            /\ lastStatus' >= lastStatus]_vars

\* a status of two cameras has been printed during whose reads a counter
\* went up
C14_Witness ==
    /\ spc = "check"
    /\ Len(selected) = 2
    /\ Cardinality(passSums) >= 2
    /\ lastStatus >= 1

\* C15: the total of the final statistics is the sum of the per-camera
\* counts printed above it
C15_TotalIsSumOfPrinted ==
    finalTotal # NoPrinted => finalTotal = SumOf(printed)

\* C16: the counter of a downloader changes only by one upwards, only in
\* a step in which a download_image call of that downloader returns True
\* and its loop goes on to the sleep, with the counters of the others and
\* the main thread standing still; it does not change once the thread has
\* ended
C16_CounterFrame ==
    [][\A w \in Workers :
          /\ count'[w] >= count[w]
          /\ count'[w] # count[w]
                => /\ count'[w] = count[w] + 1
                   /\ wpc[w] = "write" /\ off[w] = Len(content[w])
                   /\ cycles'[w] = cycles[w] + 1 /\ lastOk'[w]
                   /\ wpc'[w] = SleepPc
                   /\ \A y \in Workers \ {w} : count'[y] = count[y]
                   /\ spc' = spc /\ idx' = idx /\ total' = total
          /\ ~IsAlive(w) => count'[w] = count[w]]_vars

\* main() has read the counters for a status, has stopped the downloaders
\* and has printed the final statistics, one downloader has counted a
\* download and has left its loop
C16_Witness ==
    /\ lastStatus # NoPrinted
    /\ finalTotal # NoPrinted
    /\ \E w \in Workers : count[w] >= 1 /\ wpc[w] = "stopped"

\* C17: a downloader whose flag is down has begun at most one download
\* since stop() and has counted at most one more than it had then; at the
\* loop test with the flag down its next step ends the thread
C17_StopBoundsWork ==
    /\ [](\A w \in Workers :
             ~running[w] => /\ lateStarts[w] <= 1
                            /\ count[w] <= stopCount[w] + 1)
    /\ [][\A w \in Workers :
             (wpc[w] = "top" /\ ~running[w] /\ wpc'[w] # "top")
                => wpc'[w] \in {"stopped", "killed"}]_vars

\* stop() came between the loop test and the download_image call: the
\* downloader has begun one download since, has counted it and has left
\* its loop
C17_Witness ==
    \E w \in Workers :
        /\ ~running[w]
        /\ lateStarts[w] = 1
        /\ count[w] = stopCount[w] + 1
        /\ wpc[w] = "stopped"

\* C18: what find_camera_images returns is sorted by name and holds, of
\* the files the pattern of the camera matches, exactly those whose
\* timestamp lies within the bounds that are given; a matched file whose
\* name gives no timestamp is returned with a range exactly if it is
\* returned without one
C18_FindCameraImages ==
    [][((spc = "create" \/ (spc = "ready" /\ mode = "list_images"))
          /\ spc' # spc)
         => LET s == IF spc = "create" THEN StartOf(startArg) ELSE NoDate
                e == IF spc = "create" THEN EndOf(endArg) ELSE NoDate
                plain == FindCameraImages(files, camera, NoDate, NoDate)
            IN  /\ Names(imageFiles') \subseteq Glob(files, camera)
                /\ \A i, j \in 1..Len(imageFiles') :
                      i < j => StrLess(imageFiles'[i], imageFiles'[j])
                /\ \A n \in Glob(files, camera) :
                      IF ParseTimestamp(n) # NoTime
                      THEN n \in Names(imageFiles')
                              <=> InRange(ParseTimestamp(n), s, e)
                      ELSE n \in Names(imageFiles')
                              <=> n \in Names(plain)]_vars

====
